---- MODULE Spec2Model ----
(***************************************************************************)
(* Weeks-of-life calculator (script.js and its earlier variant).           *)
(*                                                                         *)
(* A JavaScript Date is modelled as a record [day, ms]: the number of      *)
(* whole UTC days since 1970-01-01 and the milliseconds elapsed within     *)
(* that day (0 .. DAY_MS - 1), so that getTime() = day * DAY_MS + ms.      *)
(* JavaScript numbers hold such instants exactly; the pair keeps every     *)
(* quantity of the model inside the integers TLC evaluates.                *)
(***************************************************************************)
EXTENDS Integers, Sequences, FiniteSets, TLC

VARIABLES
    \* inputs and results of computeTimeline
    tlBirth, tlEnd, tlSleep, tlToday, stats, statsBasic,
    \* inputs and results of chooseGrid
    gTotal, gWidth, gGap, layout, layoutBasic,
    \* the page: has the DOMContentLoaded handler run, the values of the form
    \* fields, the instant new Date() returns, the measured widths, the
    \* computed style of the grid, what the page displays, the pending resize
    \* timer, and the latest call of renderVisualization
    \* and the number of events the user has caused; the run of events that
    \* follow each other within the delay of the resize timer, and the calls
    \* of computeTimeline made since that run began
    loaded, form, clock, win, styles, dom, resizeTimeout, lastCall, events, burst

timelineVars == <<tlBirth, tlEnd, tlSleep, tlToday, stats, statsBasic>>
gridVars == <<gTotal, gWidth, gGap, layout, layoutBasic>>
pageVars == <<loaded, form, clock, win, styles, dom, resizeTimeout, lastCall, events, burst>>
vars == <<timelineVars, gridVars, pageVars>>

----------------------------------------------------------------------------
(* Bounds of the model *)

MaxDay == 24        \* the end date is drawn from days 0 .. MaxDay, and today runs from day 0 to MaxDay
MaxBirthDay == 8    \* the birth date is drawn from days 0 .. MaxBirthDay
HourDen == 2        \* sleep hours are counted in 1/HourDen of an hour
MaxTotal == 64      \* chooseGrid is applied to totals -1 .. MaxTotal
MaxWidth == 40      \* and to container widths 0 .. MaxWidth (pixels)
MaxGap == 4         \* and to gaps 0 .. MaxGap (pixels)
MaxClockTicks == 1  \* the page's clock advances at most this many half days
MaxEvents == 2      \* the user causes at most this many events (input, change, submit, resize)
TimeStep == 60      \* the timers' time passes in steps of this many milliseconds

----------------------------------------------------------------------------
(* Program constants *)

DAY_MS == 86400000
DEFAULT_SLEEP_HOURS == 8
HOURS_PER_DAY == 24
MIN_CELL_SIZE == 4
MAX_CELL_SIZE == 12
MONTH_NAMES == <<"Jan", "Feb", "Mar", "Apr", "May", "Jun", "Jul", "Aug", "Sep", "Oct", "Nov", "Dec">>
DEFAULT_EXPECTANCY == 90    \* expectancyYears = 90
DEFAULT_GAP == 4            \* parseFloat(...) || 4
SEED_AGE == 30              \* getUTCFullYear() - 30
RESIZE_DELAY == 120         \* setTimeout(..., 120)

\* a JavaScript number: a finite value, or a non-finite one (NaN, +-Infinity)
Num(n) == [finite |-> TRUE, value |-> n]
NaN == [finite |-> FALSE, value |-> 0]

----------------------------------------------------------------------------
(* Arithmetic of the JavaScript built-ins *)

Min(a, b) == IF a <= b THEN a ELSE b
Max(a, b) == IF a >= b THEN a ELSE b

\* Math.floor(n / d) and Math.ceil(n / d) for integers n and d > 0
FloorDiv(n, d) == n \div d
CeilDiv(n, d) == -((-n) \div d)

\* Math.round(n / d) for integers n and d > 0: halves round towards +Infinity
RoundDiv(n, d) == (2 * n + d) \div (2 * d)

\* Math.floor((b - a) / DAY_MS) and Math.ceil((b - a) / DAY_MS) for Dates a, b
FloorDays(a, b) == (b.day - a.day) + FloorDiv(b.ms - a.ms, DAY_MS)
CeilDays(a, b) == (b.day - a.day) + CeilDiv(b.ms - a.ms, DAY_MS)

\* a <= b for Dates: the comparison of their time values
DateLeq(a, b) == a.day < b.day \/ (a.day = b.day /\ a.ms <= b.ms)

----------------------------------------------------------------------------
(* The calendar of the built-in Date, in UTC *)

\* the day number of the civil date y-m-d, m in 1 .. 12
DaysFromCivil(y, m, d) ==
    LET yy == IF m <= 2 THEN y - 1 ELSE y
        era == FloorDiv(yy, 400)
        yoe == yy - era * 400
        mp == IF m > 2 THEN m - 3 ELSE m + 9
        doy == FloorDiv(153 * mp + 2, 5) + d - 1
        doe == yoe * 365 + FloorDiv(yoe, 4) - FloorDiv(yoe, 100) + doy
    IN  era * 146097 + doe - 719468

\* the civil date [year, month, date] of a day number, month in 1 .. 12
CivilFromDays(z) ==
    LET z2 == z + 719468
        era == FloorDiv(z2, 146097)
        doe == z2 - era * 146097
        yoe == FloorDiv(doe - FloorDiv(doe, 1460) + FloorDiv(doe, 36524) - FloorDiv(doe, 146096), 365)
        doy == doe - (365 * yoe + FloorDiv(yoe, 4) - FloorDiv(yoe, 100))
        mp == FloorDiv(5 * doy + 2, 153)
        d == doy - FloorDiv(153 * mp + 2, 5) + 1
        m == IF mp < 10 THEN mp + 3 ELSE mp - 9
        yy == yoe + era * 400
    IN  [year |-> IF m <= 2 THEN yy + 1 ELSE yy, month |-> m, date |-> d]

getUTCFullYear(date) == CivilFromDays(date.day).year
getUTCMonth(date) == CivilFromDays(date.day).month - 1
getUTCDate(date) == CivilFromDays(date.day).date

\* the day of year y, month index mi (any integer), day of month d (any
\* integer): months and days out of range carry over
MakeDay(y, mi, d) == DaysFromCivil(y + FloorDiv(mi, 12), (mi % 12) + 1, 1) + (d - 1)

\* new Date(Date.UTC(y, mi, d)): years 0 .. 99 mean 1900 .. 1999
DateUTC(y, mi, d) ==
    [day |-> MakeDay(IF 0 <= y /\ y <= 99 THEN 1900 + y ELSE y, mi, d), ms |-> 0]

\* date.setUTCFullYear(y): the month, day of month and time of day are kept
setUTCFullYear(date, y) ==
    [day |-> MakeDay(y, getUTCMonth(date), getUTCDate(date)), ms |-> date.ms]

----------------------------------------------------------------------------
(* script.js *)

\* stripTime that keeps the time of day
stripTimeKeepsTime(date) == date

stripTime(date) == DateUTC(getUTCFullYear(date), getUTCMonth(date), getUTCDate(date))

clamp(value, min, max) == Min(max, Max(min, value))

\* completedWeeks on the distance between the two dates, whatever their order
completedWeeksAbs(start, end) ==
    LET days == FloorDays(start, end)
    IN  FloorDiv(IF days < 0 THEN -days ELSE days, 7)

\* completedWeeks that counts the week in progress
completedWeeksCeil(start, end) ==
    LET days == FloorDays(start, end)
    IN  IF days <= 0 THEN 0 ELSE CeilDiv(days, 7)

completedWeeks(start, end) ==
    LET days == FloorDays(start, end)
    IN  IF days <= 0 THEN 0 ELSE FloorDiv(days, 7)

\* totalWeeksSpan that drops the partial last week and the floor of one week
totalWeeksSpanFloor(start, end) ==
    LET days == Max(0, CeilDays(start, end))
    IN  FloorDiv(days, 7)

totalWeeksSpan(start, end) ==
    LET days == Max(0, CeilDays(start, end))
    IN  Max(1, CeilDiv(days, 7))

\* the Error computeTimeline throws
InvalidSpan == [threw |-> TRUE, message |-> "End date must be after birth date."]

\* the steps of computeTimeline, one operator per constant of the function body;
\* sleepHours is a number whose value counts 1/HourDen hours
safeSleepHours(sleepHours) ==
    IF sleepHours.finite
    THEN clamp(sleepHours.value, 0, HOURS_PER_DAY * HourDen)
    ELSE DEFAULT_SLEEP_HOURS * HourDen

lived(total, start, now) == Min(total - 1, Max(0, completedWeeks(start, now)))

currentIndex(total, lv) == Min(total - 1, lv)

\* remaining that counts the current week too
remainingWithCurrent(total, lv) == Max(0, total - lv)

remaining(total, lv) == Max(0, total - lv - 1)

remainingDays(now, finish) == Max(0, CeilDays(now, finish))

sleepDays(rd, ssh) == Max(0, RoundDiv(rd * ssh, HOURS_PER_DAY * HourDen))

\* sleepWeeks without the cap at the remaining weeks
sleepWeeksUncapped(rem, sd) == RoundDiv(sd, 7)

sleepWeeks(rem, sd) == Min(rem, RoundDiv(sd, 7))

sleepStartIndex(ci) == ci + 1

sleepEndIndex(total, ssi, sw) == Min(total, ssi + sw)

\* the body of computeTimeline after the three dates are stripped
timelineOf(start, finish, now, sleepHours) ==
    IF DateLeq(finish, start) THEN InvalidSpan
    ELSE
    LET ssh == safeSleepHours(sleepHours)
        total == totalWeeksSpan(start, finish)
        lv == lived(total, start, now)
        ci == currentIndex(total, lv)
        rem == remaining(total, lv)
        rd == remainingDays(now, finish)
        sd == sleepDays(rd, ssh)
        sw == sleepWeeks(rem, sd)
        ssi == sleepStartIndex(ci)
        sei == sleepEndIndex(total, ssi, sw)
    IN  [threw |-> FALSE,
         total |-> total,
         lived |-> lv,
         remaining |-> rem,
         currentIndex |-> ci,
         remainingDays |-> rd,
         sleepDays |-> sd,
         sleepWeeks |-> sw,
         sleepHours |-> ssh,
         sleepStartIndex |-> ssi,
         sleepEndIndex |-> sei]

\* start, finish and now are computed once each
computeTimeline(birthDate, endDate, sleepHours, today) ==
    CHOOSE result \in {timelineOf(start, finish, now, sleepHours) :
                          start \in {stripTime(birthDate)},
                          finish \in {stripTime(endDate)},
                          now \in {stripTime(today)}} : TRUE

\* Math.floor(Math.sqrt(n)) for an integer n >= 0
FloorSqrt(n) == CHOOSE k \in 0 .. n : k * k <= n /\ (k + 1) * (k + 1) > n

\* the steps of chooseGrid, one operator per assignment
ideal(total) == Max(1, FloorSqrt(total))

\* the bias left out: as many columns as the square root
colsUnbiased(idl) == Max(1, idl)

colsBiased(idl) == Max(1, idl + FloorDiv(idl, 6))

\* the gap between cells left out of the count
maxColsThatFitNoGap(containerWidth, gap) == Max(1, FloorDiv(containerWidth, MIN_CELL_SIZE))

maxColsThatFit(containerWidth, gap) ==
    Max(1, FloorDiv(containerWidth + gap, MIN_CELL_SIZE + gap))

colsThatFit(cols, containerWidth, gap) ==
    IF containerWidth > 0 THEN Min(cols, maxColsThatFit(containerWidth, gap)) ELSE cols

colsClamped(total, cols) == Max(1, Min(total, cols))

\* the partial last row dropped
rowsFloor(total, cols) == FloorDiv(total, cols)

rows(total, cols) == CeilDiv(total, cols)

cellSize(cols, containerWidth, gap) ==
    IF containerWidth > 0
    THEN LET available == containerWidth - gap * (cols - 1)
         IN  Max(MIN_CELL_SIZE, Min(MAX_CELL_SIZE, FloorDiv(available, cols)))
    ELSE MAX_CELL_SIZE

chooseGrid(total, containerWidth, gap) ==
    IF total <= 0 THEN [cols |-> 1, rows |-> 1, cellSize |-> MAX_CELL_SIZE]
    ELSE LET cols == colsClamped(total, colsThatFit(colsBiased(ideal(total)), containerWidth, gap))
         IN  [cols |-> cols,
              rows |-> rows(total, cols),
              cellSize |-> cellSize(cols, containerWidth, gap)]

\* the class renderGrid gives to cell idx
weekClass(st, idx) ==
    LET isSleep == st.sleepWeeks > 0 /\ idx >= st.sleepStartIndex /\ idx < st.sleepEndIndex
    IN  IF idx = st.currentIndex THEN "current"
        ELSE IF idx < st.lived THEN "lived"
        ELSE IF isSleep THEN "sleep"
        ELSE "remaining"

\* the cells renderGrid appends to the grid, in order: cell idx is element idx + 1
renderGridCells(st) == [i \in 1 .. st.total |-> weekClass(st, i - 1)]

----------------------------------------------------------------------------
(* The earlier variant of the page: no sleep projection *)

timelineBasicOf(start, finish, now) ==
    IF DateLeq(finish, start) THEN InvalidSpan
    ELSE
    LET total == totalWeeksSpan(start, finish)
        lv == lived(total, start, now)
        ci == currentIndex(total, lv)
        rem == remaining(total, lv)
    IN  [threw |-> FALSE,
         total |-> total,
         lived |-> lv,
         remaining |-> rem,
         currentIndex |-> ci]

computeTimelineBasic(birthDate, endDate, today) ==
    CHOOSE result \in {timelineBasicOf(start, finish, now) :
                          start \in {stripTime(birthDate)},
                          finish \in {stripTime(endDate)},
                          now \in {stripTime(today)}} : TRUE

\* chooseGrid of the earlier variant: no container width, fixed cell size
chooseGridBasic(total) ==
    IF total <= 0 THEN [cols |-> 1, rows |-> 1]
    ELSE LET cols == colsBiased(ideal(total))
         IN  [cols |-> cols, rows |-> rows(total, cols)]

----------------------------------------------------------------------------
(* The page: form fields, display and event listeners of script.js *)

\* The value of a form field is the list of the numbers its text holds: the
\* text split at '-', each part read by Number (parseInt, parseFloat for the
\* one part of a number field). <<>> is the empty text.
EmptyText == <<>>
DateText(y, m, d) == <<Num(y), Num(m), Num(d)>>
NumberText(n) == <<Num(n)>>
JunkText == <<NaN>>

Null == [isNull |-> TRUE, day |-> 0, ms |-> 0]
SomeDate(date) == [isNull |-> FALSE, day |-> date.day, ms |-> date.ms]

\* [y, m, d] = value.split('-').map(Number); a missing part is undefined, and
\* Date.UTC of an undefined part is NaN
parseDateInput(value) ==
    IF value = EmptyText THEN Null
    ELSE IF \E i \in 1 .. Min(3, Len(value)) : ~value[i].finite THEN Null
    ELSE IF Len(value) < 3 THEN Null
    ELSE SomeDate(DateUTC(value[1].value, value[2].value - 1, value[3].value))

toInputDate(date) == DateText(getUTCFullYear(date), getUTCMonth(date) + 1, getUTCDate(date))

addYears(date, years) == setUTCFullYear(stripTime(date), getUTCFullYear(stripTime(date)) + years)

formatDate(date) ==
    [month |-> MONTH_NAMES[getUTCMonth(date) + 1], day |-> getUTCDate(date), year |-> getUTCFullYear(date)]

NoDate == [month |-> "", day |-> 0, year |-> 0]

\* formatHours: the hours with at most one decimal, here in tenths of an hour
formatHours(value) == RoundDiv(10 * value, HourDen)

\* parseInt(expectancyVal || '0', 10), and the fallback to 90 years
expectancyYears(expectancyVal) ==
    LET parsed == IF expectancyVal = EmptyText THEN Num(0) ELSE expectancyVal[1]
    IN  IF ~parsed.finite \/ parsed.value <= 0 THEN DEFAULT_EXPECTANCY ELSE parsed.value

\* parseFloat(sleepVal || ''), and the fallback to the default hours
sleepHoursOf(sleepVal) ==
    LET parsed == IF sleepVal = EmptyText THEN NaN ELSE sleepVal[1]
    IN  IF ~parsed.finite THEN Num(DEFAULT_SLEEP_HOURS * HourDen) ELSE parsed

\* const gap = parseFloat(styles.getPropertyValue('--cell-gap')) || 4
gapOf(sty) == IF sty.cellGap.finite /\ sty.cellGap.value # 0 THEN sty.cellGap.value ELSE DEFAULT_GAP

\* const containerWidth = Math.max(0, (grid.clientWidth || grid.offsetWidth || 0) - paddingX)
\*     || document.documentElement.clientWidth || window.innerWidth || 0
containerWidthOf(w, sty) ==
    LET inner == Max(0, w.gridWidth - sty.paddingX)
    IN  IF inner # 0 THEN inner ELSE w.viewport

NoSummary == [message |-> "", birth |-> NoDate, end |-> NoDate, total |-> 0]
NoStatsRow == [shown |-> FALSE, lived |-> 0, remaining |-> 0, sleepDays |-> 0, sleepHours |-> 0]

\* The children of the grid are kept as the fields of stats renderGrid drew
\* them from: the list of cells is renderGridCells of them (gridCells below).
NoCells ==
    [total |-> 0, lived |-> 0, currentIndex |-> 0,
     sleepWeeks |-> 0, sleepStartIndex |-> 0, sleepEndIndex |-> 0]

drawnFrom(st) ==
    [total |-> st.total, lived |-> st.lived, currentIndex |-> st.currentIndex,
     sleepWeeks |-> st.sleepWeeks, sleepStartIndex |-> st.sleepStartIndex,
     sleepEndIndex |-> st.sleepEndIndex]

gridCells(d) == renderGridCells(d.drawn)

\* the document as index.html delivers it: the grid holds its placeholder
InitialDom ==
    [placeholder |-> TRUE,
     gridTemplateColumns |-> 0,
     text |-> "",
     drawn |-> NoCells,
     cellSizeProp |-> 0,
     summary |-> NoSummary,
     statsRow |-> NoStatsRow,
     ariaCols |-> 0,
     ariaRows |-> 0,
     summaryFocused |-> FALSE]

renderPlaceholder(d, text) ==
    [d EXCEPT !.placeholder = TRUE,
              !.gridTemplateColumns = 0,
              !.text = text,
              !.drawn = NoCells,
              !.summary = [NoSummary EXCEPT !.message = text],
              !.statsRow = NoStatsRow,
              !.ariaCols = 0,
              !.ariaRows = 0]

renderGrid(d, st, lay) ==
    [d EXCEPT !.cellSizeProp = IF lay.cellSize # 0 THEN lay.cellSize ELSE @,
              !.placeholder = FALSE,
              !.gridTemplateColumns = lay.cols,
              !.text = "",
              !.drawn = drawnFrom(st),
              !.ariaCols = lay.cols,
              !.ariaRows = lay.rows]

updateSummary(d, st, lay, birthDate, endDate) ==
    [d EXCEPT !.summary = [message |-> "",
                           birth |-> formatDate(birthDate),
                           end |-> formatDate(endDate),
                           total |-> st.total],
              !.statsRow = [shown |-> TRUE,
                            lived |-> st.lived,
                            remaining |-> st.remaining,
                            sleepDays |-> st.sleepDays,
                            sleepHours |-> formatHours(st.sleepHours)]]

\* the catch clause without the suppressErrors test
catchErrorAlwaysShown(d, err, suppressErrors) == renderPlaceholder(d, err.message)

\* what the catch clause does with the error of computeTimeline
catchError(d, err, suppressErrors) ==
    IF ~suppressErrors THEN renderPlaceholder(d, err.message) ELSE d

\* the instant the page is loaded at: 2026-11-05, 21:00 UTC, half a day
\* before the morning of the next calendar day
LoadTime == [day |-> DaysFromCivil(2026, 11, 5), ms |-> 21 * (DAY_MS \div 24)]

\* texts typed into the date fields, the expectancy field and the sleep field
BirthTexts == {EmptyText, JunkText, DateText(2024, 2, 29)}
EndTexts == {EmptyText, JunkText, DateText(2024, 2, 29), DateText(2027, 1, 1)}
ExpectancyTexts == {EmptyText, NumberText(2)}
SleepTexts == {EmptyText, NumberText(15)}
FieldTexts ==
    [birthdate |-> BirthTexts, enddate |-> EndTexts,
     expectancy |-> ExpectancyTexts, sleepHours |-> SleepTexts]

\* grid width and viewport width the browser reports
WindowSizes ==
    {[gridWidth |-> 0, viewport |-> 0],
     [gridWidth |-> 0, viewport |-> 320],
     [gridWidth |-> 300, viewport |-> 320],
     [gridWidth |-> 960, viewport |-> 1024]}

\* computed styles of the grid: --cell-gap and the horizontal padding
GridStyles ==
    {[cellGap |-> NaN, paddingX |-> 0],
     [cellGap |-> Num(2), paddingX |-> 16]}

NoCall == [trigger |-> "none", outcome |-> "none"]

\* let resizeTimeout: no timer is pending
NoTimer == [set |-> FALSE, left |-> 0]

\* no event yet: kind is the kind of the events of the run, events their
\* number, calls the calls of computeTimeline since its first event, idle
\* the milliseconds since its last event (counted up to RESIZE_DELAY)
NoBurst == [kind |-> "none", events |-> 0, calls |-> 0, idle |-> RESIZE_DELAY]

\* a run of events of more than one kind, or with a submit, is not counted
MixedBurst == [kind |-> "mixed", events |-> 0, calls |-> 0, idle |-> 0]

\* one more event of the user, once the listeners are added
UserEvent == loaded /\ events < MaxEvents /\ events' = events + 1

\* the variables of the page, which the two functions alone do not touch
PageIdle ==
    /\ loaded = FALSE
    /\ form = [birthdate |-> EmptyText, enddate |-> EmptyText,
               expectancy |-> EmptyText, sleepHours |-> EmptyText]
    /\ clock = LoadTime
    /\ win = [gridWidth |-> 0, viewport |-> 0]
    /\ styles = [cellGap |-> NaN, paddingX |-> 0]
    /\ dom = InitialDom
    /\ resizeTimeout = NoTimer
    /\ lastCall = NoCall
    /\ events = 0
    /\ burst = NoBurst

----------------------------------------------------------------------------
(* computeTimeline applied to drawn inputs *)

NotCalled == [called |-> FALSE]

\* times of day that occur in the drawn Dates
BirthTimes == {0, DAY_MS \div 2}
EndTimes == {0, DAY_MS - 1}
TodayTimes == {0, DAY_MS - 1}

\* values of the sleepHours argument, in 1/HourDen hours
SleepArgs == {NaN} \cup {Num(h) : h \in {-1, 0, 15, 16, 2 * 24 * HourDen}}

\* the variables of chooseGrid, which computeTimeline does not touch
GridIdle ==
    /\ gTotal = 0 /\ gWidth = 0 /\ gGap = 0
    /\ layout = NotCalled /\ layoutBasic = NotCalled

InitTimeline ==
    /\ GridIdle
    /\ PageIdle
    /\ tlBirth \in [day : 0 .. MaxBirthDay, ms : BirthTimes]
    /\ tlEnd \in [day : 0 .. MaxDay, ms : EndTimes]
    /\ tlSleep \in SleepArgs
    /\ tlToday \in [day : {0}, ms : TodayTimes]
    /\ stats = NotCalled
    /\ statsBasic = NotCalled

\* const stats = computeTimeline(birthDate, endDate, sleepHours, new Date())
CallComputeTimeline ==
    /\ stats = NotCalled
    /\ stats' = computeTimeline(tlBirth, tlEnd, tlSleep, tlToday)
    /\ statsBasic' = computeTimelineBasic(tlBirth, tlEnd, tlToday)
    /\ UNCHANGED <<tlBirth, tlEnd, tlSleep, tlToday>>
    /\ UNCHANGED <<gridVars, pageVars>>

\* the same call one day later: new Date() has advanced by 24 hours
CallNextDay ==
    /\ stats # NotCalled
    /\ tlToday.day < MaxDay
    /\ tlToday' = [tlToday EXCEPT !.day = @ + 1]
    /\ stats' = computeTimeline(tlBirth, tlEnd, tlSleep, tlToday')
    /\ statsBasic' = computeTimelineBasic(tlBirth, tlEnd, tlToday')
    /\ UNCHANGED <<tlBirth, tlEnd, tlSleep>>
    /\ UNCHANGED <<gridVars, pageVars>>

NextTimeline == CallComputeTimeline \/ CallNextDay

SpecTimeline == InitTimeline /\ [][NextTimeline]_vars

----------------------------------------------------------------------------
(* chooseGrid applied to drawn inputs *)

\* the variables of computeTimeline, which chooseGrid does not touch
TimelineIdle ==
    /\ tlBirth = [day |-> 0, ms |-> 0] /\ tlEnd = [day |-> 0, ms |-> 0]
    /\ tlSleep = NaN /\ tlToday = [day |-> 0, ms |-> 0]
    /\ stats = NotCalled /\ statsBasic = NotCalled

InitGrid ==
    /\ TimelineIdle
    /\ PageIdle
    /\ gTotal \in -1 .. MaxTotal
    /\ gWidth \in 0 .. MaxWidth
    /\ gGap \in 0 .. MaxGap
    /\ layout = NotCalled
    /\ layoutBasic = NotCalled

\* const layout = chooseGrid(stats.total, containerWidth, gap)
CallChooseGrid ==
    /\ layout = NotCalled
    /\ layout' = chooseGrid(gTotal, gWidth, gGap)
    /\ UNCHANGED <<gTotal, gWidth, gGap, layoutBasic>>
    /\ UNCHANGED <<timelineVars, pageVars>>

\* const layout = chooseGrid(stats.total), the earlier variant
CallChooseGridBasic ==
    /\ layoutBasic = NotCalled
    /\ layoutBasic' = chooseGridBasic(gTotal)
    /\ UNCHANGED <<gTotal, gWidth, gGap, layout>>
    /\ UNCHANGED <<timelineVars, pageVars>>

NextGrid == CallChooseGrid \/ CallChooseGridBasic

SpecGrid == InitGrid /\ [][NextGrid]_vars

----------------------------------------------------------------------------
(* The page: its listeners *)

\* the document is parsed and DOMContentLoaded has not fired yet; the fields
\* hold what the browser put there
InitPage ==
    /\ TimelineIdle
    /\ GridIdle
    /\ loaded = FALSE
    /\ form \in [birthdate : {EmptyText, DateText(2024, 2, 29)},
                 enddate : {EmptyText, DateText(2024, 2, 29)},
                 expectancy : {EmptyText},
                 sleepHours : {EmptyText}]
    /\ clock = LoadTime
    /\ win \in WindowSizes
    /\ styles \in GridStyles
    /\ dom = InitialDom
    /\ resizeTimeout = NoTimer
    /\ lastCall = NoCall
    /\ events = 0
    /\ burst = NoBurst

\* the early returns of renderVisualization before computeTimeline is called
skipRender(trigger, text, how, suppressErrors) ==
    /\ dom' = IF ~suppressErrors THEN renderPlaceholder(dom, text) ELSE dom
    /\ lastCall' = [trigger |-> trigger, outcome |-> how]

\* renderVisualization({ announce, suppressErrors }), called by the listener
\* of trigger on the form values f; each \E names one constant of the function
renderVisualization(trigger, f, announce, suppressErrors) ==
    \E birthDate \in {parseDateInput(f.birthdate)}, endGiven \in {parseDateInput(f.enddate)} :
        IF f.birthdate = EmptyText
        THEN skipRender(trigger, "Enter your birth date to see the grid.", "no-birth", suppressErrors)
        ELSE IF birthDate.isNull
        THEN skipRender(trigger, "Birth date is invalid.", "bad-birth", suppressErrors)
        ELSE IF f.enddate # EmptyText /\ endGiven.isNull
        THEN skipRender(trigger, "End date is invalid.", "bad-end", suppressErrors)
        ELSE
        \E endDate \in {IF f.enddate # EmptyText THEN endGiven
                        ELSE addYears(birthDate, expectancyYears(f.expectancy))} :
        \E st \in {computeTimeline(birthDate, endDate, sleepHoursOf(f.sleepHours), clock)} :
            IF st.threw
            THEN /\ dom' = catchError(dom, st, suppressErrors)
                 /\ lastCall' = [trigger |-> trigger, outcome |-> "threw"]
            ELSE
            \E lay \in {chooseGrid(st.total, containerWidthOf(win, styles), gapOf(styles))} :
            \E shown \in {updateSummary(renderGrid(dom, st, lay), st, lay, birthDate, endDate)} :
                /\ dom' = IF announce THEN [shown EXCEPT !.summaryFocused = TRUE] ELSE shown
                /\ lastCall' = [trigger |-> trigger, outcome |-> "rendered"]

\* 1 when the call of renderVisualization of this step reached computeTimeline
coreCalls == IF lastCall'.outcome \in {"threw", "rendered"} THEN 1 ELSE 0

\* an event of kind kind joins the run when it follows the previous event by
\* less than RESIZE_DELAY, and begins a new run otherwise
noteEvent(kind, calls) ==
    burst' = IF burst.kind # "none" /\ burst.idle < RESIZE_DELAY
             THEN IF burst.kind = kind
                  THEN [kind |-> kind, events |-> burst.events + 1,
                        calls |-> burst.calls + calls, idle |-> 0]
                  ELSE MixedBurst
             ELSE IF kind = "submit"
                  THEN MixedBurst
                  ELSE [kind |-> kind, events |-> 1, calls |-> calls, idle |-> 0]

\* the resize listener sets the timer without clearing the pending one, whose
\* callback still runs at its time
resizeListenerTimerNoClear(timer) ==
    IF timer.set THEN timer ELSE [set |-> TRUE, left |-> RESIZE_DELAY]

\* clearTimeout(resizeTimeout); resizeTimeout = setTimeout(..., 120)
resizeListenerTimer(timer) == [set |-> TRUE, left |-> RESIZE_DELAY]

\* the DOMContentLoaded handler: seed the birth date, render, add the listeners
DOMContentLoaded ==
    /\ ~loaded
    /\ loaded' = TRUE
    /\ form' = IF form.birthdate = EmptyText
               THEN [form EXCEPT !.birthdate =
                        toInputDate(setUTCFullYear(stripTime(clock),
                                                   getUTCFullYear(stripTime(clock)) - SEED_AGE))]
               ELSE form
    /\ renderVisualization("load", form', FALSE, TRUE)
    /\ UNCHANGED <<clock, win, styles, resizeTimeout, events, burst>>
    /\ UNCHANGED <<timelineVars, gridVars>>

\* the submit listener
Submit ==
    /\ UserEvent
    /\ renderVisualization("submit", form, TRUE, FALSE)
    /\ noteEvent("submit", coreCalls)
    /\ UNCHANGED <<loaded, form, clock, win, styles, resizeTimeout>>
    /\ UNCHANGED <<timelineVars, gridVars>>

\* the user edits a field: the input listener runs on the new value
FormInput ==
    /\ UserEvent
    /\ \E field \in DOMAIN FieldTexts : \E text \in FieldTexts[field] :
          /\ text # form[field]
          /\ form' = [form EXCEPT ![field] = text]
    /\ renderVisualization("input", form', FALSE, TRUE)
    /\ noteEvent("form", coreCalls)
    /\ UNCHANGED <<loaded, clock, win, styles, resizeTimeout>>
    /\ UNCHANGED <<timelineVars, gridVars>>

\* the edit is committed: the change listener runs
FormChange ==
    /\ UserEvent
    /\ lastCall.trigger = "input"
    /\ renderVisualization("change", form, FALSE, TRUE)
    /\ noteEvent("form", coreCalls)
    /\ UNCHANGED <<loaded, form, clock, win, styles, resizeTimeout>>
    /\ UNCHANGED <<timelineVars, gridVars>>

\* the resize listener: the pending timer is cleared and a new one is set
WindowResize ==
    /\ UserEvent
    /\ \E size \in WindowSizes : size # win /\ win' = size
    /\ resizeTimeout' = resizeListenerTimer(resizeTimeout)
    /\ noteEvent("resize", 0)
    /\ UNCHANGED <<loaded, form, clock, styles, dom, lastCall>>
    /\ UNCHANGED <<timelineVars, gridVars>>

\* the timer set by the resize listener fires, no earlier than its delay
ResizeTimeout ==
    /\ loaded
    /\ resizeTimeout.set
    /\ resizeTimeout.left = 0
    /\ resizeTimeout' = NoTimer
    /\ renderVisualization("resize", form, FALSE, TRUE)
    /\ burst' = IF burst.kind = "mixed" THEN burst
                ELSE [burst EXCEPT !.calls = @ + coreCalls]
    /\ UNCHANGED <<loaded, form, clock, win, styles, events>>
    /\ UNCHANGED <<timelineVars, gridVars>>

\* TimeStep milliseconds pass without an event
TimePasses ==
    /\ loaded
    /\ burst.idle < RESIZE_DELAY \/ resizeTimeout.left > 0
    /\ burst' = [burst EXCEPT !.idle = Min(@ + TimeStep, RESIZE_DELAY)]
    /\ resizeTimeout' = [resizeTimeout EXCEPT !.left = Max(@ - TimeStep, 0)]
    /\ UNCHANGED <<loaded, form, clock, win, styles, dom, lastCall, events>>
    /\ UNCHANGED <<timelineVars, gridVars>>

\* the half days from 1970-01-01 to an instant
HalfDays(date) == 2 * date.day + (IF date.ms >= DAY_MS \div 2 THEN 1 ELSE 0)

\* time passes: new Date() is half a day later
ClockTick ==
    /\ HalfDays(clock) - HalfDays(LoadTime) < MaxClockTicks
    /\ clock' = IF clock.ms + DAY_MS \div 2 >= DAY_MS
                THEN [day |-> clock.day + 1, ms |-> clock.ms - DAY_MS \div 2]
                ELSE [day |-> clock.day, ms |-> clock.ms + DAY_MS \div 2]
    /\ burst' = [burst EXCEPT !.idle = RESIZE_DELAY]
    /\ resizeTimeout' = [resizeTimeout EXCEPT !.left = 0]
    /\ UNCHANGED <<loaded, form, win, styles, dom, lastCall, events>>
    /\ UNCHANGED <<timelineVars, gridVars>>

NextPage ==
    \/ DOMContentLoaded
    \/ Submit
    \/ FormInput
    \/ FormChange
    \/ WindowResize
    \/ ResizeTimeout
    \/ TimePasses
    \/ ClockTick

Spec == InitPage /\ [][NextPage]_vars

----------------------------------------------------------------------------
(* Properties of computeTimeline *)

Returned(st) == st # NotCalled /\ ~st.threw

\* today, the birth date and the end date as calendar days
TodayInSpan == tlBirth.day <= tlToday.day /\ tlToday.day < tlEnd.day
TodayPastEnd == tlToday.day >= tlEnd.day

\* C1: whenever the stripped end date is after the stripped birth date, and
\* wherever today lies, the result has total >= 1, 0 <= currentIndex < total,
\* 0 <= lived <= total - 1 and remaining >= 0 (both variants of the function).
C1_StatsInRange ==
    \A st \in {stats, statsBasic} :
        Returned(st) =>
            /\ st.total >= 1
            /\ 0 <= st.currentIndex /\ st.currentIndex < st.total
            /\ 0 <= st.lived /\ st.lived <= st.total - 1
            /\ st.remaining >= 0

C1_Witness ==
    /\ Returned(stats) /\ Returned(statsBasic)
    /\ TodayPastEnd
    /\ stats.total >= 2
    /\ stats.lived = stats.total - 1

\* C2: for today within [birth date, end date) in calendar days, the result
\* satisfies lived + remaining + 1 = total.
C2_WeeksAddUp ==
    \A st \in {stats, statsBasic} :
        (Returned(st) /\ TodayInSpan) => st.lived + st.remaining + 1 = st.total

C2_Witness ==
    /\ Returned(stats)
    /\ TodayInSpan
    /\ stats.lived >= 1
    /\ stats.remaining >= 1

\* C3: calling computeTimeline with today one day later, the span unchanged,
\* never returns a smaller lived or a smaller currentIndex, also for days
\* before the birth date and after the end date.
C3_MonotoneInToday ==
    [][(/\ Returned(stats) /\ Returned(stats')
        /\ tlToday'.day = tlToday.day + 1)
       => (/\ stats'.lived >= stats.lived
           /\ stats'.currentIndex >= stats.currentIndex
           /\ statsBasic'.lived >= statsBasic.lived
           /\ statsBasic'.currentIndex >= statsBasic.currentIndex)]_vars

C3_Witness ==
    /\ Returned(stats)
    /\ tlToday.day = tlBirth.day + 14
    /\ stats.lived = 2

\* C4: computeTimeline throws exactly when the calendar day of the end date is
\* not after the calendar day of the birth date, whatever today and the sleep
\* hours are; two instants of one calendar day make it throw.
C4_ThrowsIffSpanInvalid ==
    \A st \in {stats, statsBasic} :
        st # NotCalled => (st.threw <=> tlEnd.day <= tlBirth.day)

C4_Witness ==
    /\ stats # NotCalled
    /\ stats.threw
    /\ tlEnd.day = tlBirth.day
    /\ tlEnd.ms > tlBirth.ms

\* C7: sleepWeeks <= remaining and currentIndex + 1 = sleepStartIndex <=
\* sleepEndIndex <= total; renderGrid gives the class sleep to exactly the
\* cells of [sleepStartIndex, sleepEndIndex), none of them lived or current.
C7_SleepRange ==
    Returned(stats) =>
        /\ stats.sleepWeeks <= stats.remaining
        /\ stats.sleepStartIndex = stats.currentIndex + 1
        /\ stats.sleepStartIndex <= stats.sleepEndIndex
        /\ stats.sleepEndIndex <= stats.total
        /\ \A idx \in 0 .. (stats.total - 1) :
              /\ renderGridCells(stats)[idx + 1] = "sleep"
                    <=> (stats.sleepStartIndex <= idx /\ idx < stats.sleepEndIndex)
              /\ renderGridCells(stats)[idx + 1] = "sleep"
                    => (idx > stats.currentIndex /\ idx >= stats.lived)

C7_Witness ==
    /\ Returned(stats)
    /\ stats.lived >= 1
    /\ stats.sleepWeeks >= 1
    /\ stats.sleepEndIndex < stats.total
    /\ renderGridCells(stats)[stats.sleepStartIndex + 1] = "sleep"

\* C8: for today within [birth date, end date), currentIndex is the week that
\* contains today, birth + 7 * currentIndex <= today < birth + 7 *
\* (currentIndex + 1) in days, and lived = currentIndex; for today on or after
\* the end date currentIndex = total - 1.
C8_CurrentWeekContainsToday ==
    \A st \in {stats, statsBasic} :
        Returned(st) =>
            /\ TodayInSpan =>
                  /\ tlBirth.day + 7 * st.currentIndex <= tlToday.day
                  /\ tlToday.day < tlBirth.day + 7 * (st.currentIndex + 1)
                  /\ st.lived = st.currentIndex
            /\ TodayPastEnd => st.currentIndex = st.total - 1

C8_Witness ==
    /\ Returned(stats)
    /\ TodayInSpan
    /\ tlToday.day = tlBirth.day + 7
    /\ stats.currentIndex = 1

----------------------------------------------------------------------------
(* Properties of chooseGrid *)

IsSquare(n) == FloorSqrt(n) * FloorSqrt(n) = n

\* the width the columns of a layout take: cols * (cellSize + gap) - gap
LayoutWidth == layout.cols * (layout.cellSize + gGap) - gGap

\* C5: for every integer total, also total <= 0, every width >= 0 and gap >= 0,
\* chooseGrid returns cols >= 1, rows >= 1, cols * rows >= total and
\* MIN_CELL_SIZE <= cellSize <= MAX_CELL_SIZE.
C5_LayoutHoldsTotal ==
    layout # NotCalled =>
        /\ layout.cols >= 1
        /\ layout.rows >= 1
        /\ layout.cols * layout.rows >= gTotal
        /\ MIN_CELL_SIZE <= layout.cellSize
        /\ layout.cellSize <= MAX_CELL_SIZE

C5_Witness ==
    /\ layout # NotCalled
    /\ gTotal = 50 /\ gWidth = 30 /\ gGap = 2
    /\ layout.cols = 5 /\ layout.rows = 10
    /\ layout.cellSize = 4

\* C6 as stated: for every containerWidth > 0, total >= 1 and gap >= 0 the
\* layout fits the width, cols * (cellSize + gap) - gap <= containerWidth.
C6_FitsAnyKnownWidth ==
    (layout # NotCalled /\ gWidth > 0 /\ gTotal >= 1) => LayoutWidth <= gWidth

\* C6, amended: for every containerWidth >= MIN_CELL_SIZE, total >= 1 and
\* gap >= 0 the layout fits the width.
C6_FitsWidthOfOneCell ==
    (layout # NotCalled /\ gWidth >= MIN_CELL_SIZE /\ gTotal >= 1) => LayoutWidth <= gWidth

C6_Witness ==
    /\ layout # NotCalled
    /\ gTotal = 64 /\ gWidth = 30 /\ gGap = 4
    /\ layout.cols = 4
    /\ LayoutWidth = 28

\* C9 as stated: with no container width (containerWidth = 0, or the variant
\* without the parameter) chooseGrid returns cols >= rows for every total >= 1.
C9_WiderThanTall ==
    /\ (layout # NotCalled /\ gWidth = 0 /\ gTotal >= 1) => layout.cols >= layout.rows
    /\ (layoutBasic # NotCalled /\ gTotal >= 1) => layoutBasic.cols >= layoutBasic.rows

\* C9, amended: with no container width, for total >= 1, cols >= rows holds
\* exactly when total >= 36 or total is a perfect square.
C9_WiderThanTallFrom36 ==
    /\ (layout # NotCalled /\ gWidth = 0 /\ gTotal >= 1) =>
          (layout.cols >= layout.rows <=> (gTotal >= 36 \/ IsSquare(gTotal)))
    /\ (layoutBasic # NotCalled /\ gTotal >= 1) =>
          (layoutBasic.cols >= layoutBasic.rows <=> (gTotal >= 36 \/ IsSquare(gTotal)))

C9_Witness ==
    /\ layout # NotCalled /\ layoutBasic # NotCalled
    /\ gWidth = 0 /\ gTotal = 48
    /\ layout.cols = 7 /\ layout.rows = 7
    /\ layoutBasic = [cols |-> 7, rows |-> 7]

----------------------------------------------------------------------------
(* Properties of the page *)

\* the display is the placeholder that shows the message of the error
ShowsError(d, err) ==
    /\ d.placeholder
    /\ d.text = err.message
    /\ d.summary.message = err.message
    /\ d.drawn = NoCells
    /\ ~d.statsRow.shown

\* C10 as stated: after a call of renderVisualization in which computeTimeline
\* failed, whatever the trigger, the display is in the placeholder state; no
\* grid of earlier inputs is displayed.
C10_FailureShowsPlaceholder ==
    lastCall.outcome = "threw" => dom.placeholder

\* C10, amended: renderVisualization catches the error of computeTimeline on
\* every trigger; on submit the display becomes the placeholder with the
\* error's message; on initial load, input, change and the debounced resize
\* (suppressErrors: true) the display is left exactly as it was.
C10_FailureShownOnSubmitOnly ==
    [][/\ (Submit /\ lastCall'.outcome = "threw") => ShowsError(dom', InvalidSpan)
       /\ ((DOMContentLoaded \/ FormInput \/ FormChange \/ ResizeTimeout)
              /\ lastCall'.outcome = "threw") => dom' = dom]_vars

\* a submit that failed after an earlier call had drawn a grid
C10_Witness ==
    /\ lastCall = [trigger |-> "submit", outcome |-> "threw"]
    /\ ShowsError(dom, InvalidSpan)
    /\ dom.cellSizeProp # 0

\* C11 as stated: in a run of form input/change events, or of window resize
\* events, that follow each other within the debounce interval,
\* computeTimeline is called at most once.
C11_BurstCallsCoreOnce ==
    burst.kind \in {"form", "resize"} => burst.calls <= 1

\* C11, amended: the resize listener cancels the pending call and sets a new
\* one RESIZE_DELAY ahead without calling renderVisualization, so a run of
\* resize events closer than RESIZE_DELAY has at most one call of
\* computeTimeline, made by the timer RESIZE_DELAY or more after its last
\* event; the input and change listeners call renderVisualization at once,
\* on every event.
C11_ResizeDebouncedFormImmediate ==
    [][/\ burst'.kind = "resize" => burst'.calls <= 1
       /\ WindowResize =>
             /\ resizeTimeout' = [set |-> TRUE, left |-> RESIZE_DELAY]
             /\ lastCall' = lastCall /\ dom' = dom
       /\ (ResizeTimeout /\ burst.kind = "resize") =>
             /\ burst.idle >= RESIZE_DELAY
             /\ burst.calls = 0
             /\ lastCall'.trigger = "resize"
       /\ (FormInput \/ FormChange) =>
             /\ lastCall'.trigger \in {"input", "change"}
             /\ lastCall'.outcome # "none"
             /\ resizeTimeout' = resizeTimeout]_vars

C11_Witness ==
    /\ burst = [kind |-> "resize", events |-> 2, calls |-> 1, idle |-> RESIZE_DELAY]
    /\ lastCall = [trigger |-> "resize", outcome |-> "rendered"]
    /\ resizeTimeout = NoTimer

====
